---- MODULE Spec2Model ----
(***************************************************************************)
(* geojsonclipper.py: one run of the script over an uploaded file.         *)
(*                                                                         *)
(* Pipeline (src/geojsonclipper.py): load -> property filter (55-65) ->    *)
(* optional buffer-and-merge (72-217) -> map and polygon selection         *)
(* (219-276) -> GeoJSON and CSV download (278-308).                        *)
(*                                                                         *)
(* Geometry.  Plane regions are rasterised on the integer lattice: a       *)
(* polygon is the finite set of lattice cells it covers, its area is the   *)
(* number of cells, intersection and union are those of the cell sets and  *)
(* the centroid is the mean of the cells, kept as an exact fraction        *)
(* <<sum_x, sum_y, count>>.  Coordinates and buffer distances are in the   *)
(* same unit (the unit of the collection's coordinates), exactly as        *)
(* geometry.buffer(buffer_distance) takes them; one lattice step stands    *)
(* for ten coordinate units, so that a buffer distance of 50 is a disk of  *)
(* radius 5 steps.                                                         *)
(***************************************************************************)
EXTENDS Integers, Sequences, FiniteSets, TLC

VARIABLES
    pc,                \* position in the script
    loaded,            \* the collection the loader returned (lines 41-48)
    gdf,               \* the script's gdf variable
    selected_column,   \* line 57
    selected_values,   \* line 59
    merge_features,    \* line 71
    buffer_distance,   \* line 75
    overlap_threshold, \* line 81
    buffered_gdf,      \* line 113
    merged_features,   \* line 132
    processed,         \* line 133
    i,                 \* line 135 (0-based, as in Python)
    j,                 \* line 142 (0-based)
    current_group,     \* line 139
    current_geom,      \* line 140
    groups,            \* history: the current_group of every emitted feature
    merged,            \* line 166
    select_poly,       \* line 273
    selected_signals,  \* line 274
    geojson_data,      \* line 284
    csv_data,          \* line 301
    errors,            \* the st.error messages shown, in order
    ran                \* history: the stages whose code has been executed

vars == <<pc, loaded, gdf, selected_column, selected_values, merge_features,
          buffer_distance, overlap_threshold, buffered_gdf, merged_features,
          processed, i, j, current_group, current_geom, groups, merged,
          select_poly, selected_signals, geojson_data, csv_data, errors, ran>>

-----------------------------------------------------------------------------
(* Bounds of the explored inputs *)

\* Largest number of features in an uploaded collection.
MaxN == 3

\* Point geometries and property values of the uploaded features.
Pt(x, y) == [type |-> "Point", x |-> x, y |-> y]

FeaturePool ==
    { [geometry |-> Pt(0, 0), kind |-> "a", tag |-> "x"],
      [geometry |-> Pt(1, 0), kind |-> "b", tag |-> "x"],
      [geometry |-> Pt(2, 0), kind |-> "a", tag |-> "y"],
      [geometry |-> Pt(1, 1), kind |-> "b", tag |-> "y"] }

Columns == {"kind", "tag"}

Collections == UNION { [1..n -> FeaturePool] : n \in 0..MaxN }

\* Values offered by the number_input (line 75) and the slider (line 81).
BufferDistances == {1, 5}
OverlapThresholds == {20, 50, 100}

\* Drawn polygons (closed rings, as GeoJSON gives them), all convex.
Drawings ==
    { << <<-1, -1>>, <<2, -1>>, <<2, 2>>, <<-1, 2>>, <<-1, -1>> >>,
      << <<0, 0>>, <<4, 0>>, <<0, 4>>, <<0, 0>> >>,
      << <<0, -1>>, <<1, 1>>, <<-3, 1>>, <<0, -1>> >> }

NoDrawing == << >>

-----------------------------------------------------------------------------
(* Geometry *)

Min(a, b) == IF a <= b THEN a ELSE b
Max(a, b) == IF a >= b THEN a ELSE b

Polygon(cells) == [type |-> "Polygon", cells |-> cells]

\* geometry.buffer(d) of a point: the disk of radius d around it.
Buffer(g, d) ==
    Polygon({ c \in ((g.x - d)..(g.x + d)) \X ((g.y - d)..(g.y + d)) :
                (c[1] - g.x) * (c[1] - g.x) + (c[2] - g.y) * (c[2] - g.y) <= d * d })

Area(g) == Cardinality(g.cells)
Intersects(a, b) == a.cells \cap b.cells # {}
Intersection(a, b) == Polygon(a.cells \cap b.cells)
unary_union(a, b) == Polygon(a.cells \cup b.cells)

RECURSIVE SumCoord(_, _)
SumCoord(S, k) ==
    IF S = {} THEN 0
    ELSE LET c == CHOOSE c \in S : TRUE IN c[k] + SumCoord(S \ {c}, k)

\* geometry.centroid, as the fraction <<numerator x, numerator y, denominator>>.
Centroid(g) ==
    IF g.type = "Point" THEN <<g.x, g.y, 1>>
    ELSE <<SumCoord(g.cells, 1), SumCoord(g.cells, 2), Cardinality(g.cells)>>

\* Twice the signed area of the triangle a, b, p.
Cross(a, b, p) == (b[1] - a[1]) * (p[2] - a[2]) - (b[2] - a[2]) * (p[1] - a[1])

OnSegment(p, a, b) ==
    /\ Cross(a, b, p) = 0
    /\ Min(a[1], b[1]) <= p[1] /\ p[1] <= Max(a[1], b[1])
    /\ Min(a[2], b[2]) <= p[2] /\ p[2] <= Max(a[2], b[2])

\* Whether the edge a-b crosses the horizontal ray from p to the right.
RayCrosses(p, a, b) ==
    /\ (a[2] > p[2]) # (b[2] > p[2])
    /\ IF b[2] > a[2]
       THEN (p[1] - a[1]) * (b[2] - a[2]) < (p[2] - a[2]) * (b[1] - a[1])
       ELSE (p[1] - a[1]) * (b[2] - a[2]) > (p[2] - a[2]) * (b[1] - a[1])

\* The ring with every vertex multiplied by n.
ScaleRing(ring, n) == [k \in 1..Len(ring) |-> <<ring[k][1] * n, ring[k][2] * n>>]

OnBoundary(ring, p) ==
    \E k \in 1..(Len(ring) - 1) : OnSegment(p, ring[k], ring[k + 1])

Crossings(ring, p) ==
    Cardinality({ k \in 1..(Len(ring) - 1) : RayCrosses(p, ring[k], ring[k + 1]) })

\* Mutation of Contains: the boundary counts as inside (covers).
Covers(ring, c) ==
    LET r == ScaleRing(ring, c[3])
        p == <<c[1], c[2]>>
    IN  \/ OnBoundary(r, p)
        \/ Crossings(r, p) % 2 = 1

\* select_poly.contains(point): the point lies in the interior of the polygon;
\* a point of the boundary (an edge or a vertex) is not contained.
Contains(ring, c) ==
    LET r == ScaleRing(ring, c[3])
        p == <<c[1], c[2]>>
    IN  /\ ~OnBoundary(r, p)
        /\ Crossings(r, p) % 2 = 1

-----------------------------------------------------------------------------
(* Property filter, lines 55-65 *)

Unique(g, col) == { g[k][col] : k \in 1..Len(g) }

IsIn(row, col, vals) == row[col] \in vals

\* Mutation of FilterByProperty: the filter is applied even to an empty selection.
FilterAlways(g, col, vals) == SelectSeq(g, LAMBDA row : IsIn(row, col, vals))

FilterByProperty(g, col, vals) ==
    IF vals # {} THEN SelectSeq(g, LAMBDA row : IsIn(row, col, vals)) ELSE g

-----------------------------------------------------------------------------
(* Merge loop, lines 132-163 *)

\* Mutation of OverlapAbove: the comparison is >= instead of >.
OverlapAtLeast(cur, test, threshold) ==
    Area(Intersection(cur, test)) * 100 >= threshold * Min(Area(cur), Area(test))

\* Lines 148-150 and 152: (intersection_area / min_area) * 100 > overlap_threshold,
\* as an exact comparison of fractions (min_area > 0 for a buffered point).
OverlapAbove(cur, test, threshold) ==
    Area(Intersection(cur, test)) * 100 > threshold * Min(Area(cur), Area(test))

\* Lines 147-152: the two nested conditions under which j is absorbed.
ShouldAbsorb(cur, test, threshold) ==
    /\ Intersects(cur, test)
    /\ OverlapAbove(cur, test, threshold)

\* Mutation of GrowGeom: the current geometry stays the seed's buffer.
KeepSeedGeom(cur, test) == cur

\* Line 154.
GrowGeom(cur, test) == unary_union(cur, test)

\* Mutation of MarkAbsorbed: the absorbed index is not marked.
ForgetAbsorbed(p, k) == p

\* Line 155.
MarkAbsorbed(p, k) == p \cup {k}

\* Mutation of AlreadyProcessed: the outer loop never skips an index.
NeverProcessed(k, p) == FALSE

\* Line 136.
AlreadyProcessed(k, p) == k \in p

\* Lines 158-162.
MergedFeature(geom, group) ==
    [geometry |-> geom, original_count |-> Len(group), center |-> Centroid(geom)]

-----------------------------------------------------------------------------
(* Polygon selection and export, lines 270-308 *)

\* row.geometry.centroid (line 274).
RepresentativePoint(row) == Centroid(row.geometry)

SelectByPolygon(g, ring) ==
    SelectSeq(g, LAMBDA row : Contains(ring, RepresentativePoint(row)))

\* GeoSeries.x and GeoSeries.y (lines 299-300) exist for Point geometries only.
AllPoints(g) == \A k \in 1..Len(g) : g[k].geometry.type = "Point"

\* Line 298-300 for one row of point geometry: the properties, then latitude and
\* longitude.
CsvRow(row) ==
    [kind |-> row.kind, tag |-> row.tag,
     latitude |-> row.geometry.y, longitude |-> row.geometry.x]

MergeError(exc) == <<"Error during merging", exc>>
FileError(exc) == <<"Error processing file", exc>>

-----------------------------------------------------------------------------
(* The script *)

Init ==
    /\ loaded \in Collections
    /\ gdf = loaded
    /\ pc = "filter"
    /\ selected_column = ""
    /\ selected_values = {}
    /\ merge_features = FALSE
    /\ buffer_distance = 0
    /\ overlap_threshold = 0
    /\ buffered_gdf = << >>
    /\ merged_features = << >>
    /\ processed = {}
    /\ i = 0
    /\ j = 0
    /\ current_group = << >>
    /\ current_geom = Polygon({})
    /\ groups = << >>
    /\ merged = << >>
    /\ select_poly = NoDrawing
    /\ selected_signals = << >>
    /\ geojson_data = << >>
    /\ csv_data = << >>
    /\ errors = << >>
    /\ ran = {}

loopVars == <<buffered_gdf, merged_features, processed, i, j, current_group,
              current_geom, groups, merged>>
mergeParams == <<merge_features, buffer_distance, overlap_threshold>>
filterVars == <<selected_column, selected_values>>
exportVars == <<select_poly, selected_signals, geojson_data, csv_data>>

\* Lines 55-65: the user picks a column and any of its values.
PropertyFilter ==
    /\ pc = "filter"
    /\ \E col \in Columns : \E vals \in SUBSET Unique(gdf, col) :
         /\ selected_column' = col
         /\ selected_values' = vals
         /\ gdf' = FilterByProperty(gdf, col, vals)
    /\ ran' = ran \cup {"filter"}
    /\ pc' = "merge_option"
    /\ UNCHANGED <<loaded, mergeParams, loopVars, exportVars, errors>>

\* Lines 71-72 with the checkbox unchecked.
SkipMerge ==
    /\ pc = "merge_option"
    /\ merge_features' = FALSE
    /\ pc' = "map"
    /\ UNCHANGED <<loaded, gdf, filterVars, buffer_distance, overlap_threshold,
                   loopVars, exportVars, errors, ran>>

\* Lines 71-85 with the checkbox checked.
StartMerge ==
    /\ pc = "merge_option"
    /\ merge_features' = TRUE
    /\ \E d \in BufferDistances : buffer_distance' = d
    /\ \E t \in OverlapThresholds : overlap_threshold' = t
    /\ pc' = "buffer"
    /\ UNCHANGED <<loaded, gdf, filterVars, loopVars, exportVars, errors, ran>>

\* Lines 88-133: the two maps, the buffered copy and the loop's initial state.
BufferFeatures ==
    /\ pc = "buffer"
    /\ buffered_gdf' = [k \in 1..Len(gdf) |-> Buffer(gdf[k].geometry, buffer_distance)]
    /\ merged_features' = << >>
    /\ processed' = {}
    /\ i' = 0
    /\ ran' = ran \cup {"merge"}
    /\ pc' = "outer"
    /\ UNCHANGED <<loaded, gdf, filterVars, mergeParams, j, current_group,
                   current_geom, groups, merged, exportVars, errors>>

\* Line 135 exhausted: leave the outer loop.
OuterDone ==
    /\ pc = "outer"
    /\ i = Len(buffered_gdf)
    /\ pc' = "build"
    /\ UNCHANGED <<loaded, gdf, filterVars, mergeParams, loopVars, exportVars,
                   errors, ran>>

\* Lines 136-137.
OuterSkip ==
    /\ pc = "outer"
    /\ i < Len(buffered_gdf)
    /\ AlreadyProcessed(i, processed)
    /\ i' = i + 1
    /\ UNCHANGED <<pc, loaded, gdf, filterVars, mergeParams, buffered_gdf,
                   merged_features, processed, j, current_group, current_geom,
                   groups, merged, exportVars, errors, ran>>

\* Lines 139-142: a new cluster seeded by i.
OuterSeed ==
    /\ pc = "outer"
    /\ i < Len(buffered_gdf)
    /\ ~AlreadyProcessed(i, processed)
    /\ current_group' = <<i>>
    /\ current_geom' = buffered_gdf[i + 1]
    /\ j' = i + 1
    /\ pc' = "inner"
    /\ UNCHANGED <<loaded, gdf, filterVars, mergeParams, buffered_gdf,
                   merged_features, processed, i, groups, merged, exportVars,
                   errors, ran>>

\* Lines 143-144.
InnerSkip ==
    /\ pc = "inner"
    /\ j < Len(buffered_gdf)
    /\ j \in processed
    /\ j' = j + 1
    /\ UNCHANGED <<pc, loaded, gdf, filterVars, mergeParams, buffered_gdf,
                   merged_features, processed, i, current_group, current_geom,
                   groups, merged, exportVars, errors, ran>>

\* Lines 146-155: compare j with the current geometry and absorb it or not.
InnerCompare ==
    /\ pc = "inner"
    /\ j < Len(buffered_gdf)
    /\ j \notin processed
    /\ LET test_geom == buffered_gdf[j + 1] IN
         IF ShouldAbsorb(current_geom, test_geom, overlap_threshold)
         THEN /\ current_group' = Append(current_group, j)
              /\ current_geom' = GrowGeom(current_geom, test_geom)
              /\ processed' = MarkAbsorbed(processed, j)
         ELSE UNCHANGED <<current_group, current_geom, processed>>
    /\ j' = j + 1
    /\ UNCHANGED <<pc, loaded, gdf, filterVars, mergeParams, buffered_gdf,
                   merged_features, i, groups, merged, exportVars, errors, ran>>

\* Lines 147-154 raising (a geometry operation of the library fails), caught at
\* line 215: the messages of lines 216-217, then the script goes on at line 219.
GeometryFault ==
    /\ pc = "inner"
    /\ j < Len(buffered_gdf)
    /\ j \notin processed
    /\ errors' = Append(errors, MergeError("GEOSException"))
    /\ pc' = "map"
    /\ UNCHANGED <<loaded, gdf, filterVars, mergeParams, loopVars, exportVars, ran>>

\* Lines 157-163 after the inner loop: emit the cluster, mark the seed.
EmitCluster ==
    /\ pc = "inner"
    /\ j = Len(buffered_gdf)
    /\ merged_features' = Append(merged_features, MergedFeature(current_geom, current_group))
    /\ groups' = Append(groups, current_group)
    /\ processed' = processed \cup {i}
    /\ i' = i + 1
    /\ pc' = "outer"
    /\ UNCHANGED <<loaded, gdf, filterVars, mergeParams, buffered_gdf, j,
                   current_group, current_geom, merged, exportVars, errors, ran>>

\* Lines 166-197: the merged GeoDataFrame and its map.
BuildMerged ==
    /\ pc = "build"
    /\ merged' = merged_features
    /\ pc' = "stats"
    /\ UNCHANGED <<loaded, gdf, filterVars, mergeParams, buffered_gdf,
                   merged_features, processed, i, j, current_group, current_geom,
                   groups, exportVars, errors, ran>>

\* Lines 199-208: the reduction divides by len(gdf).
MergeStatistics ==
    /\ pc = "stats"
    /\ Len(gdf) # 0
    /\ pc' = "use_merged"
    /\ UNCHANGED <<loaded, gdf, filterVars, mergeParams, loopVars, exportVars,
                   errors, ran>>

\* Line 207 with len(gdf) = 0: ZeroDivisionError, caught at line 215.
StatisticsZeroDivision ==
    /\ pc = "stats"
    /\ Len(gdf) = 0
    /\ errors' = Append(errors, MergeError("ZeroDivisionError"))
    /\ pc' = "map"
    /\ UNCHANGED <<loaded, gdf, filterVars, mergeParams, loopVars, exportVars, ran>>

\* Lines 211-213.
UseMerged ==
    /\ pc = "use_merged"
    /\ \E use \in BOOLEAN : gdf' = IF use THEN merged ELSE gdf
    /\ pc' = "map"
    /\ UNCHANGED <<loaded, filterVars, mergeParams, loopVars, exportVars, errors, ran>>

\* Lines 219-273: the map is shown; the user has drawn a polygon or has not.
DrawMap ==
    /\ pc = "map"
    /\ \E d \in Drawings \cup {NoDrawing} :
         /\ select_poly' = d
         /\ pc' = IF d = NoDrawing THEN "done" ELSE "select"
    /\ UNCHANGED <<loaded, gdf, filterVars, mergeParams, loopVars,
                   selected_signals, geojson_data, csv_data, errors, ran>>

\* Lines 274-278.
SelectFeatures ==
    /\ pc = "select"
    /\ selected_signals' = SelectByPolygon(gdf, select_poly)
    /\ ran' = ran \cup {"select"}
    /\ pc' = IF Len(selected_signals') > 0 THEN "geojson" ELSE "done"
    /\ UNCHANGED <<loaded, gdf, filterVars, mergeParams, loopVars, select_poly,
                   geojson_data, csv_data, errors>>

\* Lines 284-294.
ExportGeoJSON ==
    /\ pc = "geojson"
    /\ geojson_data' = selected_signals
    /\ ran' = ran \cup {"geojson"}
    /\ pc' = "csv"
    /\ UNCHANGED <<loaded, gdf, filterVars, mergeParams, loopVars, select_poly,
                   selected_signals, csv_data, errors>>

\* Line 286 for merged rows: their 'center' property is a geometry object, which
\* the JSON encoder may refuse (TypeError), caught at line 310.
GeoJSONNotSerializable ==
    /\ pc = "geojson"
    /\ ~AllPoints(selected_signals)
    /\ errors' = Append(errors, FileError("TypeError"))
    /\ ran' = ran \cup {"geojson"}
    /\ pc' = "failed"
    /\ UNCHANGED <<loaded, gdf, filterVars, mergeParams, loopVars, exportVars>>

\* Lines 297-308 on point geometries.
ExportCSV ==
    /\ pc = "csv"
    /\ AllPoints(selected_signals)
    /\ csv_data' = [k \in 1..Len(selected_signals) |-> CsvRow(selected_signals[k])]
    /\ ran' = ran \cup {"csv"}
    /\ pc' = "done"
    /\ UNCHANGED <<loaded, gdf, filterVars, mergeParams, loopVars, select_poly,
                   selected_signals, geojson_data, errors>>

\* Lines 299-300 on a polygon geometry: GeoSeries.y raises ValueError, caught at
\* line 310.
CsvNotPoint ==
    /\ pc = "csv"
    /\ ~AllPoints(selected_signals)
    /\ errors' = Append(errors, FileError("ValueError"))
    /\ ran' = ran \cup {"csv"}
    /\ pc' = "failed"
    /\ UNCHANGED <<loaded, gdf, filterVars, mergeParams, loopVars, exportVars>>

Next ==
    \/ PropertyFilter
    \/ SkipMerge
    \/ StartMerge
    \/ BufferFeatures
    \/ OuterDone
    \/ OuterSkip
    \/ OuterSeed
    \/ InnerSkip
    \/ InnerCompare
    \/ GeometryFault
    \/ EmitCluster
    \/ BuildMerged
    \/ MergeStatistics
    \/ StatisticsZeroDivision
    \/ UseMerged
    \/ DrawMap
    \/ SelectFeatures
    \/ ExportGeoJSON
    \/ GeoJSONNotSerializable
    \/ ExportCSV
    \/ CsvNotPoint

Spec == Init /\ [][Next]_vars

-----------------------------------------------------------------------------
(* Properties *)

\* The merge loop of lines 135-163 has run to its end.
LoopCompleted ==
    /\ "merge" \in ran
    /\ pc # "inner"
    /\ i = Len(buffered_gdf)

RECURSIVE SumCounts(_)
SumCounts(fs) ==
    IF fs = << >> THEN 0 ELSE Head(fs).original_count + SumCounts(Tail(fs))

Counts(fs) == [k \in 1..Len(fs) |-> fs[k].original_count]

Members(group) == { group[k] : k \in 1..Len(group) }

\* The clusters built so far: the emitted ones, then the one under construction.
ClustersSoFar == IF pc = "inner" THEN Append(groups, current_group) ELSE groups

MergeErrorShown == \E k \in 1..Len(errors) : errors[k][1] = "Error during merging"

\* C1: when the merge loop has completed, the original_count values of the
\* emitted features add up to the number of features that entered the merger.
C1_CountsSumToInput ==
    LoopCompleted => SumCounts(merged_features) = Len(buffered_gdf)

C1_Witness ==
    /\ LoopCompleted
    /\ Len(buffered_gdf) = 3
    /\ Counts(merged_features) = <<2, 1>>

\* The three features of the scenario, buffered by 50 coordinate units: the
\* second point, 0.0001 away from the first, falls in the first's lattice cell.
ScenarioBuffered ==
    << Buffer(Pt(0, 0), 5), Buffer(Pt(0, 0), 5), Buffer(Pt(1, 1), 5) >>

\* C2: on the points (0,0), (0,0.0001), (10,10) with buffer distance 50 and
\* threshold 50 the merger emits two features, of original_count 2 and 1.
C2_ScenarioTwoClusters ==
    ( /\ LoopCompleted
      /\ buffered_gdf = ScenarioBuffered
      /\ buffer_distance = 5
      /\ overlap_threshold = 50 )
    => Counts(merged_features) = <<2, 1>>

\* C3: a merge stage run on an empty collection ends with an empty merged
\* collection and without the merge error branch having been taken.
C3_EmptyInputNoError ==
    ( /\ "merge" \in ran
      /\ Len(buffered_gdf) = 0
      /\ pc \in {"use_merged", "map", "select", "done"} )
    => /\ ~MergeErrorShown
       /\ merged = << >>

\* The representative point of a row as the claims describe it: the point
\* itself, or the centre recorded in a merged row.
RepPointOf(row) ==
    IF row.geometry.type = "Point"
    THEN <<row.geometry.x, row.geometry.y, 1>>
    ELSE row.center

\* C4: once the CSV export has been attempted on a selection, it has succeeded
\* with one row per selected feature, whose latitude and longitude are the y and
\* x of the feature's representative point.
C4_CsvRowPerFeature ==
    "csv" \in ran =>
      /\ pc = "done"
      /\ Len(csv_data) = Len(selected_signals)
      /\ \A k \in 1..Len(selected_signals) :
           LET c == RepPointOf(selected_signals[k]) IN
             /\ csv_data[k].latitude * c[3] = c[2]
             /\ csv_data[k].longitude * c[3] = c[1]

\* C5: after an error of the merge stage nothing further is processed: neither
\* the polygon selector nor the exporter runs.
C5_MergeErrorHalts ==
    MergeErrorShown => ran \cap {"select", "geojson", "csv"} = {}

\* C6: with an empty set of allowed values the collection handed to the later
\* stages is the loaded one: same features, same order.
C6_EmptySelectionKeepsCollection ==
    ( /\ "filter" \in ran
      /\ selected_values = {}
      /\ pc \in {"merge_option", "buffer", "outer", "inner", "build", "stats",
                 "use_merged"} )
    => gdf = loaded

C6_Witness ==
    /\ pc = "merge_option"
    /\ selected_values = {}
    /\ Len(loaded) = 3
    /\ Cardinality(Unique(loaded, selected_column)) = 2

\* Strict interior of a convex ring: the point lies strictly on the same side
\* of every edge.
StrictlyInsideConvex(ring, c) ==
    LET r == ScaleRing(ring, c[3])
        p == <<c[1], c[2]>>
        E == 1..(Len(r) - 1)
    IN  \/ \A k \in E : Cross(r[k], r[k + 1], p) > 0
        \/ \A k \in E : Cross(r[k], r[k + 1], p) < 0

OnRing(ring, c) == OnBoundary(ScaleRing(ring, c[3]), <<c[1], c[2]>>)

\* C7: the selector returns, in input order, exactly the features whose
\* representative point lies strictly inside the drawn polygon; a point on a
\* vertex or an edge is left out.
C7_SelectsStrictInterior ==
    "select" \in ran =>
      /\ selected_signals =
           SelectSeq(gdf, LAMBDA row : StrictlyInsideConvex(select_poly, RepPointOf(row)))
      /\ \A k \in 1..Len(selected_signals) :
           ~OnRing(select_poly, RepPointOf(selected_signals[k]))

C7_Witness ==
    /\ "select" \in ran
    /\ Len(selected_signals) >= 1
    /\ \E k \in 1..Len(gdf) : OnRing(select_poly, RepPointOf(gdf[k]))
    /\ \E k \in 1..Len(gdf) : gdf[k].geometry.type = "Polygon"

\* C8: no index is both absorbed and a seed, none is absorbed twice; every
\* cluster's seed is its smallest index and the seeds ascend; when the loop has
\* completed every index is in exactly one cluster.
C8_EachIndexInOneCluster ==
    "merge" \in ran =>
      LET cs == ClustersSoFar IN
        /\ \A g \in 1..Len(cs) : \A a, b \in 1..Len(cs[g]) :
             a < b => cs[g][1] <= cs[g][a] /\ cs[g][a] < cs[g][b]
        /\ \A g, h \in 1..Len(cs) :
             g < h => cs[g][1] < cs[h][1] /\ Members(cs[g]) \cap Members(cs[h]) = {}
        /\ LoopCompleted =>
             UNION { Members(cs[g]) : g \in 1..Len(cs) } = 0..(Len(buffered_gdf) - 1)

C8_Witness ==
    /\ LoopCompleted
    /\ groups = << <<0, 2>>, <<1>> >>

\* The overlap percentage of lines 148-150 exceeds t, computed on the cells.
PctExceeds(a, b, t) ==
    LET inter == Cardinality(a.cells \cap b.cells)
        small == IF Cardinality(a.cells) < Cardinality(b.cells)
                 THEN Cardinality(a.cells) ELSE Cardinality(b.cells)
    IN  inter * 100 > t * small

PctEquals(a, b, t) ==
    LET inter == Cardinality(a.cells \cap b.cells)
        small == IF Cardinality(a.cells) < Cardinality(b.cells)
                 THEN Cardinality(a.cells) ELSE Cardinality(b.cells)
    IN  inter * 100 = t * small

ComparedStep ==
    /\ pc = "inner" /\ pc' = "inner"
    /\ j < Len(buffered_gdf) /\ j \notin processed

CellsOf(group) == UNION { buffered_gdf[k + 1].cells : k \in Members(group) }

PtSeq(ps) == [k \in 1..Len(ps) |-> ps[k].geometry]

\* C10: the geometry a candidate is compared with is the union of the buffers
\* of the seed and of everything absorbed so far, and so is every emitted
\* geometry; the clusters depend on the input order: with buffer 1 and
\* threshold 20 the points (0,0), (1,0), (2,0) form one cluster in that order
\* and two clusters in the order (0,0), (2,0), (1,0).
C10_ComparesWithGrowingUnion ==
    /\ pc = "inner" => current_geom.cells = CellsOf(current_group)
    /\ "merge" \in ran =>
         \A g \in 1..Len(groups) : merged_features[g].geometry.cells = CellsOf(groups[g])
    /\ ( /\ LoopCompleted
         /\ Len(buffered_gdf) = 3
         /\ buffer_distance = 1
         /\ overlap_threshold = 20 )
       => /\ buffered_gdf = << Buffer(Pt(0, 0), 1), Buffer(Pt(1, 0), 1), Buffer(Pt(2, 0), 1) >>
             => groups = << <<0, 1, 2>> >>
          /\ buffered_gdf = << Buffer(Pt(0, 0), 1), Buffer(Pt(2, 0), 1), Buffer(Pt(1, 0), 1) >>
             => groups = << <<0, 2>>, <<1>> >>

C10_Witness ==
    /\ pc = "inner"
    /\ \E k \in Members(current_group) :
         /\ k # i
         /\ ~PctExceeds(buffered_gdf[i + 1], buffered_gdf[k + 1], overlap_threshold)
====
